---------------------------- MODULE Spec2Model ----------------------------
(***************************************************************************)
(* A model of data2.py: the DatasetCollection batch iterator, the data     *)
(* readers read_m30K / read_coco behind load_data, build_vocabulary and    *)
(* collate_fn.                                                             *)
(*                                                                         *)
(* data2.py uses the names torch and random without importing them; the    *)
(* model takes them to be bound to the library modules of those names.     *)
(* Array rows, list items and dataset indices are 0-based as in Python;    *)
(* TLA+ sequences are 1-based, so Python's x[j] is x[j + 1] here.          *)
(***************************************************************************)
EXTENDS Integers, Sequences, FiniteSets

VARIABLES
    data_loaders,   \* DatasetCollection.data_loaders : name -> batch iterator
    data_sets,      \* DatasetCollection.data_sets    : name -> dataset
    val_loaders,    \* DatasetCollection.val_loaders  : name -> DataLoader
    batch_size,     \* the batch_size argument get_loaders hands to every loader
    ret,            \* outcome of the last DatasetCollection.next() call
    picks,          \* history: the name each next() call picked, with the
                    \* names registered at that call
    load_args,      \* load_data: its arguments and the files it reads
    load_ret,       \* load_data: what it returned or raised
    captions,       \* build_vocabulary: the tokenized captions
    threshold,      \* build_vocabulary: the threshold argument
    vocab,          \* build_vocabulary: the words handed to vocab.add_word, in order
    examples,       \* collate_fn: the examples of the batch as handed in
    data,           \* collate_fn: the list object data (sorted in place)
    batch           \* collate_fn: what it returned

collVars == <<data_loaders, data_sets, val_loaders, batch_size, ret, picks>>
loadVars == <<load_args, load_ret>>
vocabVars == <<captions, threshold, vocab>>
collateVars == <<examples, data, batch>>
vars == <<collVars, loadVars, vocabVars, collateVars>>

\* ------------------------------------------------------------- bounds
MaxLen == 2          \* examples in a dataset
MaxCalls == 3        \* recorded calls of next()
MaxImages == 3       \* rows of an image feature file
MaxCaps == 2         \* captions handed to build_vocabulary
MaxCapLen == 2       \* tokens of such a caption
MaxBatch == 2        \* examples handed to collate_fn
MaxWords == 2        \* tokens of an example's caption

Names == {"a", "b"}  \* dataset names handed to add_trainset / add_valset

\* ------------------------------------------------------------ helpers
Range(s) == {s[i] : i \in 1..Len(s)}

\* All orders of the indices 0..n-1 (torch's RandomSampler draws one of them).
Perms(n) ==
    {p \in [1..n -> 0..(n - 1)] : \A i, j \in 1..n : i # j => p[i] # p[j]}

Min(a, b) == IF a < b THEN a ELSE b

\* The dict d with d[k] = v set.
DictSet(d, k, v) ==
    [n \in DOMAIN d \cup {k} |-> IF n = k THEN v ELSE d[n]]

\* ---------------------------------------------- torch.utils.data objects
Dataset(n) == [kind |-> "Dataset", length |-> n]

DataLoader(dset, bs, shuffle) ==
    [kind |-> "DataLoader", length |-> dset.length, batch_size |-> bs,
     shuffle |-> shuffle]

\* The index order split into batches of bs indices, the last one shorter.
RECURSIVE Chunk(_, _)
Chunk(order, bs) ==
    IF order = <<>> THEN <<>>
    ELSE LET m == Min(bs, Len(order))
         IN  <<SubSeq(order, 1, m)>> \o Chunk(SubSeq(order, m + 1, Len(order)), bs)

\* What collate_fn returns for the examples with the indices b:
\* (images, targets, lengths, ids).
Collated(b) ==
    <<<<"images", b>>, <<"targets", b>>, <<"lengths", b>>, <<"ids", b>>>>

DataLoaderIter(order, bs) ==
    [kind |-> "DataLoaderIter",
     batches |-> [i \in 1..Len(Chunk(order, bs)) |-> Collated(Chunk(order, bs)[i])]]

\* Python's iter(obj): the iterators it can return.  An iterator returns
\* itself; a DataLoader returns a new pass, in a fresh random order when
\* shuffle is set.
PyIter(obj) ==
    IF obj.kind = "DataLoaderIter" THEN {obj}
    ELSE IF obj.kind = "DataLoader" THEN
        {DataLoaderIter(p, obj.batch_size) :
            p \in IF obj.shuffle THEN Perms(obj.length)
                  ELSE {[i \in 1..obj.length |-> i - 1]}}
    ELSE {}

\* Python's next(obj): the exception raised ("none": a value was returned),
\* the value, and the object afterwards.
PyNext(obj) ==
    IF obj.kind # "DataLoaderIter" THEN
        [exc |-> "TypeError", val |-> <<>>, obj |-> obj]
    ELSE IF obj.batches = <<>> THEN
        [exc |-> "StopIteration", val |-> <<>>, obj |-> obj]
    ELSE
        [exc |-> "none", val |-> Head(obj.batches),
         obj |-> [obj EXCEPT !.batches = Tail(obj.batches)]]

\* ------------------------------------------------- DatasetCollection
NoCall == [op |-> "none", exc |-> "none", val |-> <<>>]
Returned(v) == [op |-> "next", exc |-> "none", val |-> v]
Raised(e) == [op |-> "next", exc |-> e, val |-> <<>>]

\* The variables of the parts a specification does not exercise.
IdleColl ==
    /\ data_loaders = [n \in {} |-> 0]
    /\ data_sets = [n \in {} |-> 0]
    /\ val_loaders = [n \in {} |-> 0]
    /\ batch_size = 1
    /\ ret = NoCall
    /\ picks = <<>>
IdleLoad == load_args = [name |-> "none"] /\ load_ret = [exc |-> "pending"]
IdleVocab == captions = <<>> /\ threshold = 0 /\ vocab = <<>>
IdleCollate == examples = <<>> /\ data = <<>> /\ batch = [done |-> FALSE]

Init ==
    /\ data_loaders = [n \in {} |-> 0]
    /\ data_sets = [n \in {} |-> 0]
    /\ val_loaders = [n \in {} |-> 0]
    /\ batch_size \in 1..MaxLen
    /\ ret = NoCall
    /\ picks = <<>>
    /\ IdleLoad /\ IdleVocab /\ IdleCollate

add_trainset(name, dset) ==
    /\ \E it \in PyIter(DataLoader(dset, batch_size, TRUE)) :
           data_loaders' = DictSet(data_loaders, name, it)
    /\ data_sets' = DictSet(data_sets, name, dset)
    /\ UNCHANGED <<val_loaders, batch_size, ret, picks>>
    /\ UNCHANGED <<loadVars, vocabVars, collateVars>>

add_valset(name, dset) ==
    /\ val_loaders' = DictSet(val_loaders, name, DataLoader(dset, batch_size, FALSE))
    /\ UNCHANGED <<data_loaders, data_sets, batch_size, ret, picks>>
    /\ UNCHANGED <<loadVars, vocabVars, collateVars>>

\* The validation set handed to add_valset: next() never reads val_loaders,
\* so one size of validation set is enough.
ValSet == Dataset(1)

\* A choice among the names of every loader, validation loaders included.
ChoiceKeys_AnyLoader == DOMAIN data_loaders \cup DOMAIN val_loaders

\* The keys random.choice draws from.
ChoiceKeys == DOMAIN data_loaders

\* "image, target, index, index = next(loader)" then
\* "return image, target, index, index": the third item of the batch is
\* overwritten by the fourth.
Unpack(t) == <<t[1], t[2], t[4], t[4]>>

next_k(k) ==
    IF k \notin DOMAIN data_sets THEN
        /\ ret' = Raised("KeyError")
        /\ UNCHANGED <<data_loaders, data_sets>>
    ELSE
        LET loader == data_sets[k]
            r1 == PyNext(loader)
        IN  IF r1.exc = "none" THEN
                /\ ret' = Returned(Unpack(r1.val))
                /\ data_sets' = [data_sets EXCEPT ![k] = r1.obj]
                /\ UNCHANGED data_loaders
            ELSE IF r1.exc = "StopIteration" THEN
                \E it \in PyIter(data_loaders[k]) :
                    LET r2 == PyNext(it)
                    IN  /\ data_loaders' = [data_loaders EXCEPT ![k] = r2.obj]
                        /\ ret' = IF r2.exc = "none" THEN Returned(Unpack(r2.val))
                                  ELSE Raised(r2.exc)
                        /\ UNCHANGED data_sets
            ELSE
                /\ ret' = Raised(r1.exc)
                /\ UNCHANGED <<data_loaders, data_sets>>

next ==
    /\ Len(picks) < MaxCalls
    /\ IF ChoiceKeys = {} THEN
           /\ ret' = Raised("IndexError")
           /\ UNCHANGED <<data_loaders, data_sets, picks>>
       ELSE
           \E k \in ChoiceKeys :
               /\ next_k(k)
               /\ picks' = Append(picks, [k |-> k, keys |-> DOMAIN data_loaders])
    /\ UNCHANGED <<val_loaders, batch_size>>
    /\ UNCHANGED <<loadVars, vocabVars, collateVars>>

Next ==
    \/ \E name \in Names, n \in 1..MaxLen : add_trainset(name, Dataset(n))
    \/ \E name \in Names : add_valset(name, ValSet)
    \/ next

Spec == Init /\ [][Next]_vars

\* ------------------------------------------------------- the data files
\* A text file: its lines, and whether the last line ends with "\n".
\* A line is the tuple of its tab-separated fields.
TextFile(lines, nl) == [lines |-> lines, nl |-> nl]
EmptyField == [img |-> -1, c |-> -1]
EmptyLine == <<EmptyField>>

\* f.read().split('\n'): a final "\n" yields a last, empty item.
SplitLines(file) ==
    IF file.nl \/ file.lines = <<>> THEN file.lines \o <<EmptyLine>>
    ELSE file.lines

\* t[:-1]
DropLast(t) == SubSeq(t, 1, Len(t) - 1)

\* <split>-resnet50-avgpool.npy: row r is the feature vector of image r.
ImageVectors(split, N) == [r \in 1..N |-> [split |-> split, img |-> r - 1]]

\* Multi30K <split>.lc.norm.tok.<i>.<lang>: line r is the i-th caption of
\* image r.
M30KFile(split, i, lang, N, nl) ==
    TextFile([r \in 1..N |->
                 <<[split |-> split, lang |-> lang, img |-> r - 1, c |-> i]>>], nl)

\* <split>_captions.txt: the five captions of image x are the lines
\* 5x .. 5x+4, each "caption<TAB>...".
CocoFile(split, N, nl) ==
    TextFile([r \in 1..(5 * N) |->
                 <<[split |-> split, lang |-> "en", img |-> (r - 1) \div 5,
                    c |-> ((r - 1) % 5) + 1],
                   [img |-> (r - 1) \div 5, c |-> 0]>>], nl)

\* ----------------------------------------------------------------- numpy
\* np.repeat(a, k, axis=0): every row k times in a row.
Repeat(a, k) == [j \in 1..(k * Len(a)) |-> a[((j - 1) \div k) + 1]]

\* a[inds] for a list of 0-based row indices.
Take(a, inds) == [j \in 1..Len(inds) |-> a[inds[j] + 1]]

\* [y for x in xs for y in x]
RECURSIVE Flatten(_)
Flatten(xs) == IF xs = <<>> THEN <<>> ELSE Head(xs) \o Flatten(Tail(xs))

\* s[:n] for n >= 0
Prefix(s, n) == SubSeq(s, 1, Min(n, Len(s)))

\* -------------------------------------------------------------- read_m30K
\* "if split == 'test': split = 'test_2016'"
M30KSplit(split) == IF split = "test" THEN "test_2016" ELSE split

read_m30K(lang, split, N, nl) ==
    LET sp == M30KSplit(split)
        image_vectors == ImageVectors(sp, N)
        caps == [i \in 1..5 |-> DropLast(SplitLines(M30KFile(sp, i, lang, N, nl)))]
    IN  [exc |-> "none",
         images |-> Repeat(image_vectors, 5),
         captions |-> Flatten(caps)]

\* -------------------------------------------------------------- read_coco
\* np.arange(image_vectors.shape[0] - 1): the indices the sample is drawn from.
SampleRange(M) == M - 1

\* The orders np.random.shuffle can leave a in.
Shuffles(M) == Perms(IF SampleRange(M) > 0 THEN SampleRange(M) ELSE 0)

\* cap_inds: the five caption rows x*5 .. x*5+4 of every picked image x.
CapInds(img_inds) ==
    Flatten([j \in 1..Len(img_inds) |-> [c \in 1..5 |-> img_inds[j] * 5 + c - 1]])

\* downsample = 0 stands for the default, False.  a is the shuffled index array.
read_coco(split, downsample, M, nl, a) ==
    LET image_vectors == ImageVectors(split, M)
        t == SplitLines(CocoFile(split, M, nl))
        all == [j \in 1..(Len(t) - 1) |-> DropLast(t)[j][1]]
        img_inds == Prefix(a, downsample)
        cap_inds == CapInds(img_inds)
        kept_vectors == IF downsample # 0 THEN Take(image_vectors, img_inds)
                        ELSE image_vectors
        kept_caps == IF downsample # 0 THEN Take(all, cap_inds) ELSE all
    IN  [exc |-> "none",
         images |-> Repeat(kept_vectors, 5),
         captions |-> kept_caps]

\* -------------------------------------------------------------- load_data
ValDownsample == 5000

DataNames == {"coconumpy", "m30ken", "m30kde", "other"}
Splits == {"train", "val", "test"}

LoadArgs ==
    [name : DataNames, split : Splits, lang_prefix : BOOLEAN,
     downsample : 0..MaxImages, N : 1..MaxImages, nl : BOOLEAN]

\* What load_data(name, split, lang_prefix, downsample) can return, the
\* feature file having N rows.
load_data(args) ==
    IF args.name = "coconumpy" THEN
        LET downsample == IF args.split = "val" THEN ValDownsample
                          ELSE args.downsample
        IN  {read_coco(args.split, downsample, args.N, args.nl, a) :
                a \in Shuffles(args.N)}
    ELSE IF args.name = "m30ken" THEN
        {read_m30K("en", args.split, args.N, args.nl)}
    ELSE IF args.name = "m30kde" THEN
        {read_m30K("de", args.split, args.N, args.nl)}
    ELSE {[exc |-> "NotImplementedError", images |-> <<>>, captions |-> <<>>]}

InitLoad ==
    /\ IdleColl /\ IdleVocab /\ IdleCollate
    /\ load_args \in LoadArgs
    /\ load_ret = [exc |-> "pending"]

LoadData ==
    /\ load_ret = [exc |-> "pending"]
    /\ load_ret' \in load_data(load_args)
    /\ UNCHANGED <<load_args, collVars, vocabVars, collateVars>>

NextLoad == LoadData

SpecLoad == InitLoad /\ [][NextLoad]_vars

\* ------------------------------------------------------- build_vocabulary
Words == {"cat", "dog"}    \* tokens; tokenize() leaves no "<" or ">" in a token
SpecialTokens == <<"<pad>", "<start>", "<end>", "<unk>">>
DefaultThreshold == 4

\* The sequences over S of length at most n.
BoundedSeqs(S, n) == UNION {[1..k -> S] : k \in 0..n}

\* The orders a dict can list the keys S in.
Orders(S) ==
    {s \in [1..Cardinality(S) -> S] :
        \A i, j \in 1..Cardinality(S) : i # j => s[i] # s[j]}

\* counter.update(caption): one more for every token of the caption.
RECURSIVE CounterUpdate(_, _)
CounterUpdate(counter, caption) ==
    IF caption = <<>> THEN counter
    ELSE LET w == Head(caption)
             n == IF w \in DOMAIN counter THEN counter[w] ELSE 0
         IN  CounterUpdate(DictSet(counter, w, n + 1), Tail(caption))

\* "for i, caption in enumerate(captions): counter.update(caption)"
RECURSIVE CountAll(_, _)
CountAll(counter, caps) ==
    IF caps = <<>> THEN counter
    ELSE CountAll(CounterUpdate(counter, Head(caps)), Tail(caps))

\* A word is kept under the strict comparison.
Keeps_Strict(cnt, thr) == cnt > thr

\* "if cnt >= threshold"
Keeps(cnt, thr) == cnt >= thr

\* The lists of add_word calls build_vocabulary can make: the special tokens,
\* then the kept words in the order counter.items() lists them.
build_vocabulary(caps, thr) ==
    LET counter == CountAll([w \in {} |-> 0], caps)
        kept == {w \in DOMAIN counter : Keeps(counter[w], thr)}
    IN  {SpecialTokens \o words : words \in Orders(kept)}

InitVocab ==
    /\ IdleColl /\ IdleLoad /\ IdleCollate
    /\ captions \in BoundedSeqs(BoundedSeqs(Words, MaxCapLen), MaxCaps)
    /\ threshold \in 1..DefaultThreshold
    /\ vocab = <<>>

BuildVocabulary ==
    /\ vocab = <<>>
    /\ vocab' \in build_vocabulary(captions, threshold)
    /\ UNCHANGED <<captions, threshold, collVars, loadVars, collateVars>>

NextVocab == BuildVocabulary

SpecVocab == InitVocab /\ [][NextVocab]_vars

\* -------------------------------------------------------------- collate_fn
StartIdx == 1     \* vocab('<start>'): the second word added
EndIdx == 2       \* vocab('<end>'): the third word added
FirstWordIdx == 4 \* the first index after the special tokens

\* The caption tensor ImageCaptionDataset.__getitem__ builds for an example
\* with n tokens: <start>, the tokens' indices, <end>.
CaptionOf(id, n) ==
    <<StartIdx>> \o [p \in 1..n |-> FirstWordIdx + id] \o <<EndIdx>>

Examples ==
    {[image |-> im, caption |-> CaptionOf(id, n), id |-> id, img_id |-> id] :
        im \in 0..1, id \in 0..MaxBatch, n \in 0..MaxWords}

SeqMax(s) == CHOOSE m \in Range(s) : \A x \in Range(s) : x <= m

\* x put into the list s, sorted by caption length, longest first, behind
\* every item that is as long or longer.
RECURSIVE InsertDesc(_, _)
InsertDesc(s, x) ==
    IF s = <<>> THEN <<x>>
    ELSE IF Len(Head(s).caption) >= Len(x.caption)
         THEN <<Head(s)>> \o InsertDesc(Tail(s), x)
         ELSE <<x>> \o s

RECURSIVE InsertAsc(_, _)
InsertAsc(s, x) ==
    IF s = <<>> THEN <<x>>
    ELSE IF Len(Head(s).caption) <= Len(x.caption)
         THEN <<Head(s)>> \o InsertAsc(Tail(s), x)
         ELSE <<x>> \o s

\* The list sorted by caption length, shortest first.
RECURSIVE SortedByLen_Ascending(_)
SortedByLen_Ascending(d) ==
    IF d = <<>> THEN <<>>
    ELSE InsertAsc(SortedByLen_Ascending(SubSeq(d, 1, Len(d) - 1)), d[Len(d)])

\* data.sort(key=lambda x: len(x[1]), reverse=True): a stable sort.
RECURSIVE SortedByLen(_)
SortedByLen(d) ==
    IF d = <<>> THEN <<>>
    ELSE InsertDesc(SortedByLen(SubSeq(d, 1, Len(d) - 1)), d[Len(d)])

\* What collate_fn returns for the (sorted) list d: images, targets, lengths, ids.
Collate(d) ==
    LET lengths == [i \in 1..Len(d) |-> Len(d[i].caption)]
        width == SeqMax(lengths)
    IN  [done |-> TRUE,
         images |-> [i \in 1..Len(d) |-> d[i].image],
         targets |-> [i \in 1..Len(d) |->
                        [p \in 1..width |->
                            IF p <= lengths[i] THEN d[i].caption[p] ELSE 0]],
         lengths |-> lengths,
         ids |-> [i \in 1..Len(d) |-> d[i].id]]

InitCollate ==
    /\ IdleColl /\ IdleLoad /\ IdleVocab
    /\ examples \in {e \in BoundedSeqs(Examples, MaxBatch) :
                        /\ e # <<>>
                        /\ \A i, j \in 1..Len(e) : i # j => e[i].id # e[j].id}
    /\ data = examples
    /\ batch = [done |-> FALSE]

collate_fn ==
    /\ ~batch.done
    /\ data' = SortedByLen(data)
    /\ batch' = Collate(data')
    /\ UNCHANGED <<examples, collVars, loadVars, vocabVars>>

NextCollate == collate_fn

SpecCollate == InitCollate /\ [][NextCollate]_vars

\* ---------------------------------------------- claims: DatasetCollection
\* The calls of next() made while exactly the names of keys were registered.
SameKeys(i, j) == picks[i].keys = picks[j].keys

C2_NextAlwaysReturnsBatch ==
    (picks # <<>> /\ \A n \in DOMAIN data_sets : data_sets[n].length >= 1)
        => (ret.op = "next" /\ ret.exc = "none")

\* C3 (as stated): a call of next() that picks k while the iterator stored
\* for k has batches left returns the first of them, advances that iterator
\* by one batch and changes nothing else of the collection.
C3_ServesNextBatchOfLoader ==
    [][ (picks' # picks) =>
            LET k == picks'[Len(picks')].k
                it == data_loaders[k]
            IN  (it.batches # <<>>) =>
                    /\ ret'.exc = "none"
                    /\ ret'.val = Head(it.batches)
                    /\ data_loaders' =
                           [data_loaders EXCEPT ![k].batches = Tail(it.batches)]
                    /\ data_sets' = data_sets
                    /\ val_loaders' = val_loaders ]_vars

\* ------------------------------------------------------ claims: load_data
Loaded == load_ret.exc = "none"

\* C4 (as stated): read_m30K, for N images and five caption files of N lines
\* each, returns 5*N images and 5*N captions, and for every index j the
\* caption captions[j] describes the image whose feature vector is images[j].
C4_CaptionPairedWithOwnImage ==
    (Loaded /\ load_args.name \in {"m30ken", "m30kde"} /\ load_args.nl) =>
        /\ Len(load_ret.images) = 5 * load_args.N
        /\ Len(load_ret.captions) = 5 * load_args.N
        /\ \A j \in 1..Len(load_ret.captions) :
               load_ret.captions[j][1].img = load_ret.images[j].img

\* C6 (as stated): read_coco with downsample = n, 1 <= n <= M, keeps exactly
\* n distinct images: 5*n image rows and 5*n captions, each caption at the
\* index of its own image.
C6_DownsampleKeepsNImages ==
    (/\ Loaded
     /\ load_args.name = "coconumpy" /\ load_args.split # "val"
     /\ load_args.nl
     /\ load_args.downsample \in 1..load_args.N) =>
        /\ Len(load_ret.images) = 5 * load_args.downsample
        /\ Len(load_ret.captions) = 5 * load_args.downsample
        /\ Cardinality({load_ret.images[j].img : j \in 1..Len(load_ret.images)})
               = load_args.downsample
        /\ \A j \in 1..Len(load_ret.captions) :
               load_ret.captions[j].img = load_ret.images[j].img

\* What read_coco does instead (C6): a downsampled result never holds the
\* last image of the feature file, and holds at most M - 1 images.
LastImageNeverSampled ==
    (Loaded /\ load_args.name = "coconumpy"
        /\ (load_args.split = "val" \/ load_args.downsample # 0)) =>
        /\ \A j \in 1..Len(load_ret.images) :
               load_ret.images[j].img # load_args.N - 1
        /\ Len(load_ret.images) <= 5 * (load_args.N - 1)

\* ----------------------------------------------- claims: build_vocabulary
\* How often the word w occurs in all captions together.
Occurrences(w) ==
    Cardinality({ij \in (1..Len(captions)) \X (1..MaxCapLen + 1) :
                    /\ ij[2] <= Len(captions[ij[1]])
                    /\ captions[ij[1]][ij[2]] = w})

\* C5: the vocabulary build_vocabulary returns holds the four special tokens,
\* added first and in the order <pad>, <start>, <end>, <unk>, and after them
\* exactly the words that occur at least threshold times in all captions
\* together, each added once; a word that occurs less often is not in it.
C5_VocabularyIsSpecialsPlusFrequentWords ==
    (vocab # <<>>) =>
        LET rest == SubSeq(vocab, 5, Len(vocab))
        IN  /\ Len(vocab) >= 4
            /\ SubSeq(vocab, 1, 4) = <<"<pad>", "<start>", "<end>", "<unk>">>
            /\ Range(rest) = {w \in Words : Occurrences(w) >= threshold}
            /\ \A i, j \in 1..Len(rest) : i # j => rest[i] # rest[j]

\* C5 witness: a vocabulary was built in which one word was kept, at exactly
\* threshold occurrences, and another word, occurring less often, was
\* discarded.
C5_KeptAndDiscarded ==
    /\ vocab # <<>>
    /\ \E w, v \in Words :
           /\ Occurrences(w) = threshold /\ w \in Range(vocab)
           /\ Occurrences(v) >= 1 /\ Occurrences(v) < threshold
           /\ v \notin Range(vocab)

=============================================================================
